---- MODULE Spec2Model ----
(***************************************************************************)
(* Model of the report presenter of cargo-audit (presenter.rs) and of the  *)
(* affected-version lister of rustsec-admin (list_versions.rs).            *)
(*                                                                         *)
(* Standard output is modelled as a sequence of events, a panic (unwrap,   *)
(* expect, map index miss) as a flag that stops the running call, and an   *)
(* Option as a sequence of length 0 (None) or 1 (Some).                    *)
(***************************************************************************)
EXTENDS Integers, Sequences, FiniteSets, TLC

(***************************************************************************)
(* Bounds of the model.                                                    *)
(***************************************************************************)
\* Most findings (vulnerabilities plus warnings) of one report.
MaxFindings == 2

\* Most advisories about cargo-audit itself handed to the self report.
MaxSelfAdvisories == 2

\* Most advisories of the advisory database.
MaxAdvisories == 2

\* Most published versions of a crate in the index.
MaxVersions == 2

(***************************************************************************)
(* Option, as the code uses it.                                            *)
(***************************************************************************)
None == <<>>

Some(x) == <<x>>

is_some(o) == Len(o) = 1

unwrap_or(o, default) == IF is_some(o) THEN o[1] ELSE default

\* All sequences over S of length at most n.
SeqsUpTo(S, n) == UNION {[1..k -> S] : k \in 0..n}

(***************************************************************************)
(* Types the presenter reads.                                              *)
(***************************************************************************)
\* config::DenyOption
DenyOption == {"warnings", "unmaintained", "unsound", "yanked"}

\* rustsec::WarningKind, in its Ord order (the iteration order of the
\* report's BTreeMap<WarningKind, Vec<Warning>>).
WarningKind == <<"notice", "unmaintained", "unsound", "yanked">>

WarningKinds == {WarningKind[i] : i \in 1..Len(WarningKind)}

\* DenyOption::get_warning_kind: a selector names one kind, or ("warnings")
\* all of them.
get_warning_kind(k) ==
    IF k = "warnings" THEN WarningKinds ELSE {k}

\* config::OutputFormat
OutputFormat == {"Terminal", "Json"}

\* config::OutputConfig
OutputConfig ==
    [deny : SUBSET DenyOption,
     format : OutputFormat,
     show_tree : {None, Some(TRUE), Some(FALSE)}]

\* cargo_lock::Package: the packages a lockfile or a report may name.
Package ==
    {[name |-> "a", version |-> 1], [name |-> "a", version |-> 2]}

\* Dependency::from(&Package): the deduplication key, name + version.
Dependency_from(package) == <<package.name, package.version>>

Dependencies == {Dependency_from(p) : p \in Package}

\* advisory::Id::url(): the URL derived from an advisory ID, if its kind has one.
id_url(id) ==
    CASE id = "RUSTSEC-2020-0001" -> Some("https://rustsec.org/advisories/RUSTSEC-2020-0001")
      [] id = "CVE-2020-0001" -> Some("https://cve.mitre.org/cgi-bin/cvename.cgi?name=CVE-2020-0001")
      [] OTHER -> None

AdvisoryIds == {"RUSTSEC-2020-0001", "TALOS-2020-0001"}

\* advisory::License
License == {"CC-BY-4.0", "CC0-1.0"}

\* advisory::Metadata, the fields the presenter prints. The RUSTSEC advisory
\* has a CVSS score, the other has none.
Metadata ==
    {[id |-> id, title |-> "title", date |-> "2020-01-01", license |-> license,
      url |-> url,
      cvss |-> IF id = "RUSTSEC-2020-0001" THEN Some("9.8 (critical)") ELSE None] :
        id \in AdvisoryIds, license \in License,
        url \in {None, Some("https://example.com/issue/1")}}

\* The advisory the findings of a report carry.
ReportAdvisory ==
    [id |-> "RUSTSEC-2020-0001", title |-> "title", date |-> "2020-01-01",
     license |-> "CC0-1.0", url |-> Some("https://example.com/issue/1"),
     cvss |-> Some("9.8 (critical)")]

\* rustsec::Vulnerability: version 1 of a package has a fixed upgrade, version 2 none.
Vulnerability(package) ==
    [package |-> package,
     advisory |-> ReportAdvisory,
     patched |-> IF package.version = 1 THEN <<">=2">> ELSE <<>>]

\* rustsec::Warning: a yanked warning carries no advisory.
Warning(kind, package) ==
    [kind |-> kind,
     package |-> package,
     advisory |-> IF kind = "yanked" THEN None ELSE Some(ReportAdvisory)]

\* rustsec::Report: found and count agree with the list, as Report::generate
\* builds them; warnings are grouped by kind.
Report(vulns, warns) ==
    [vulnerabilities |->
        [found |-> vulns # <<>>,
         count |-> Len(vulns),
         list |-> [i \in 1..Len(vulns) |-> Vulnerability(vulns[i])]],
     warnings |->
        [k \in WarningKinds |->
            [i \in 1..Len(warns[k]) |-> Warning(k, warns[k][i])]]]

RECURSIVE SumLen(_, _)
SumLen(f, S) ==
    IF S = {} THEN 0
    ELSE LET k == CHOOSE x \in S : TRUE
         IN Len(f[k]) + SumLen(f, S \ {k})

Reports ==
    UNION {{Report(v, w) :
                v \in SeqsUpTo(Package, MaxFindings - SumLen(w, WarningKinds))} :
            w \in {x \in [WarningKinds -> SeqsUpTo(Package, MaxFindings)] :
                      SumLen(x, WarningKinds) <= MaxFindings}}

\* cargo_lock::Lockfile: the nodes of its dependency tree; an invalid lockfile
\* has no tree (dependency_tree() is an error).
Lockfiles ==
    {[valid |-> TRUE, nodes |-> n] : n \in SUBSET Dependencies}
        \cup {[valid |-> FALSE, nodes |-> {}]}

\* The path argument of print_report.
Paths == {None, Some("Cargo.lock")}

(***************************************************************************)
(* Standard output and the state of a running call.                        *)
(***************************************************************************)
Red == "Red"

Yellow == "Yellow"

\* print_attr: one bold, coloured "label content" line.
print_attr_event(color, attr, content) ==
    [ev |-> "attr", color |-> color, label |-> attr, content |-> content]

\* status_err! / status_warn!: a status line of the given severity.
status_event(severity, what, count, word, path) ==
    [ev |-> "status", color |-> severity, label |-> what,
     content |-> <<count, word, path>>]

\* A running call: the object it runs on (self), what it has printed, whether
\* it has panicked, and the calls it has made, in order.
Running(self) ==
    [self |-> self, out |-> <<>>, panicked |-> FALSE, calls |-> <<>>]

Emit(r, event) == [r EXCEPT !.out = Append(@, event)]

Call(r, what) == [r EXCEPT !.calls = Append(@, what)]

Panic(r) == [r EXCEPT !.panicked = TRUE]

print_attr(r, color, attr, content) ==
    Emit(r, print_attr_event(color, attr, content))

println(r) ==
    Emit(r, [ev |-> "newline", color |-> "", label |-> "", content |-> ""])

(***************************************************************************)
(* Presenter                                                               *)
(***************************************************************************)
\* Presenter::new
new(config) ==
    [displayed_packages |-> {},
     deny_warning_kinds |-> UNION {get_warning_kind(k) : k \in config.deny},
     config |-> config]

warning_word(count) ==
    IF count # 1 THEN "warnings" ELSE "warning"

warning_color(deny_warning) ==
    IF deny_warning THEN Red ELSE Yellow

\* count_warnings adding one per kind instead of the kind's number of warnings.
count_warnings_per_kind(self, report) ==
    LET F[i \in 0..Len(WarningKind)] ==
            IF i = 0 THEN <<0, 0>>
            ELSE LET kind == WarningKind[i]
                     n == IF report.warnings[kind] = <<>> THEN 0 ELSE 1
                 IN IF kind \in self.deny_warning_kinds
                    THEN <<F[i - 1][1] + n, F[i - 1][2]>>
                    ELSE <<F[i - 1][1], F[i - 1][2] + n>>
    IN F[Len(WarningKind)]

\* Presenter::count_warnings: <<denied, allowed>>
count_warnings(self, report) ==
    LET F[i \in 0..Len(WarningKind)] ==
            IF i = 0 THEN <<0, 0>>
            ELSE LET kind == WarningKind[i]
                     n == Len(report.warnings[kind])
                 IN IF kind \in self.deny_warning_kinds
                    THEN <<F[i - 1][1] + n, F[i - 1][2]>>
                    ELSE <<F[i - 1][1], F[i - 1][2] + n>>
    IN F[Len(WarningKind)]

\* should_exit_with_failure without the denied-warning check.
should_exit_with_failure_vulnerabilities_only(self, report) ==
    report.vulnerabilities.found

\* Presenter::should_exit_with_failure
should_exit_with_failure(self, report) ==
    IF report.vulnerabilities.found THEN TRUE
    ELSE IF count_warnings(self, report)[1] # 0 THEN TRUE
    ELSE FALSE

\* should_exit_with_failure_due_to_self failing on any configured deny option.
should_exit_with_failure_due_to_self_any_deny(self, self_advisories) ==
    self_advisories # <<>> /\ self.config.deny # {}

\* Presenter::should_exit_with_failure_due_to_self
should_exit_with_failure_due_to_self(self, self_advisories) ==
    self_advisories # <<>> /\ "warnings" \in self.config.deny

\* The URL choice without the CC-BY-4.0 branch: the ID URL first, always.
metadata_url_prefers_id(metadata) ==
    IF is_some(id_url(metadata.id)) THEN id_url(metadata.id)
    ELSE IF is_some(metadata.url) THEN metadata.url
    ELSE None

\* The URL line of print_metadata, as an Option.
metadata_url(metadata) ==
    IF metadata.license = "CC-BY-4.0"
    THEN IF is_some(metadata.url) THEN metadata.url
         ELSE IF is_some(id_url(metadata.id)) THEN id_url(metadata.id)
         ELSE None
    ELSE IF is_some(id_url(metadata.id)) THEN id_url(metadata.id)
         ELSE IF is_some(metadata.url) THEN metadata.url
         ELSE None

\* Presenter::print_metadata
print_metadata(r, metadata, color) ==
    LET r1 == print_attr(r, color, "Title:    ", metadata.title)
        r2 == print_attr(r1, color, "Date:     ", metadata.date)
        r3 == print_attr(r2, color, "ID:       ", metadata.id)
        r4 == IF is_some(metadata_url(metadata))
              THEN print_attr(r3, color, "URL:      ", metadata_url(metadata)[1])
              ELSE r3
    IN IF is_some(metadata.cvss)
       THEN print_attr(r4, color, "Severity: ", metadata.cvss[1])
       ELSE r4

\* print_tree that does not consult displayed_packages before rendering.
print_tree_no_dedup(r, color, package, tree) ==
    LET dep == Dependency_from(package)
        r1 == [r EXCEPT !.self.displayed_packages = @ \cup {dep}]
    IN IF ~unwrap_or(r.self.config.show_tree, TRUE) THEN r1
       ELSE LET r2 == print_attr(r1, color, "Dependency tree:\n", "")
                r3 == Call(r2, <<"tree.nodes", dep>>)
            IN IF dep \notin tree THEN Panic(r3)
               ELSE Emit(Call(r3, <<"tree.render", dep>>),
                         [ev |-> "tree", color |-> "", label |-> "", content |-> dep])

\* print_tree that renders nothing for a package without a node (tree.nodes().get).
print_tree_skip_missing(r, color, package, tree) ==
    LET dep == Dependency_from(package)
        inserted == dep \notin r.self.displayed_packages
        r1 == [r EXCEPT !.self.displayed_packages = @ \cup {dep}]
    IN IF ~inserted THEN r1
       ELSE IF ~unwrap_or(r.self.config.show_tree, TRUE) THEN r1
       ELSE LET r2 == print_attr(r1, color, "Dependency tree:\n", "")
                r3 == Call(r2, <<"tree.nodes", dep>>)
            IN IF dep \notin tree THEN r3
               ELSE Emit(Call(r3, <<"tree.render", dep>>),
                         [ev |-> "tree", color |-> "", label |-> "", content |-> dep])

\* print_tree that tests show_tree before it records the package.
print_tree_show_tree_first(r, color, package, tree) ==
    LET dep == Dependency_from(package)
        inserted == dep \notin r.self.displayed_packages
        r1 == [r EXCEPT !.self.displayed_packages = @ \cup {dep}]
    IN IF ~unwrap_or(r.self.config.show_tree, TRUE) THEN r
       ELSE IF ~inserted THEN r1
       ELSE LET r2 == print_attr(r1, color, "Dependency tree:\n", "")
                r3 == Call(r2, <<"tree.nodes", dep>>)
            IN IF dep \notin tree THEN Panic(r3)
               ELSE Emit(Call(r3, <<"tree.render", dep>>),
                         [ev |-> "tree", color |-> "", label |-> "", content |-> dep])

\* Presenter::print_tree
print_tree(r, color, package, tree) ==
    LET dep == Dependency_from(package)
        inserted == dep \notin r.self.displayed_packages
        r1 == [r EXCEPT !.self.displayed_packages = @ \cup {dep}]
    IN IF ~inserted THEN r1
       ELSE IF ~unwrap_or(r.self.config.show_tree, TRUE) THEN r1
       ELSE LET r2 == print_attr(r1, color, "Dependency tree:\n", "")
                r3 == Call(r2, <<"tree.nodes", dep>>)
            IN IF dep \notin tree THEN Panic(r3)
               ELSE Emit(Call(r3, <<"tree.render", dep>>),
                         [ev |-> "tree", color |-> "", label |-> "", content |-> dep])

\* Presenter::print_vulnerability
print_vulnerability(r, vulnerability, tree) ==
    LET r1 == print_attr(r, Red, "Crate:    ", vulnerability.package.name)
        r2 == print_attr(r1, Red, "Version:  ", vulnerability.package.version)
        r3 == print_metadata(r2, vulnerability.advisory, Red)
        r4 == IF vulnerability.patched = <<>>
              THEN print_attr(r3, Red, "Solution: ", "No fixed upgrade is available!")
              ELSE print_attr(r3, Red, "Solution: ", <<"Upgrade to", vulnerability.patched>>)
        r5 == print_tree(r4, Red, vulnerability.package, tree)
    IN IF r5.panicked THEN r5 ELSE println(r5)

\* Presenter::print_warning
print_warning(r, warning, tree) ==
    LET color == warning_color(warning.kind \in r.self.deny_warning_kinds)
        r1 == print_attr(r, color, "Crate:    ", warning.package.name)
        r2 == print_attr(r1, color, "Version:  ", warning.package.version)
        r3 == print_attr(r2, color, "Warning:  ", warning.kind)
        r4 == IF is_some(warning.advisory)
              THEN print_metadata(r3, warning.advisory[1], color)
              ELSE r3
        r5 == print_tree(r4, color, warning.package, tree)
    IN IF r5.panicked THEN r5 ELSE println(r5)

\* print_report, the loop over report.vulnerabilities.list
RECURSIVE print_vulnerabilities(_, _, _)
print_vulnerabilities(r, list, tree) ==
    IF list = <<>> \/ r.panicked THEN r
    ELSE print_vulnerabilities(print_vulnerability(r, Head(list), tree), Tail(list), tree)

\* report.warnings.values(), flattened: the kinds in order, each kind's list in order
RECURSIVE warnings_values(_, _)
warnings_values(warnings, i) ==
    IF i > Len(WarningKind) THEN <<>>
    ELSE warnings[WarningKind[i]] \o warnings_values(warnings, i + 1)

\* print_report, the loops over report.warnings
RECURSIVE print_warnings(_, _, _)
print_warnings(r, list, tree) ==
    IF list = <<>> \/ r.panicked THEN r
    ELSE print_warnings(print_warning(r, Head(list), tree), Tail(list), tree)

\* print_report, the aggregate lines after the findings
print_aggregate(r, report, path) ==
    LET r1 == IF report.vulnerabilities.found
              THEN IF report.vulnerabilities.count = 1
                   THEN Emit(r, status_event("error", "found", 1, "vulnerability", path))
                   ELSE Emit(r, status_event("error", "found",
                                report.vulnerabilities.count, "vulnerabilities", path))
              ELSE r
        num_denied == count_warnings(r.self, report)[1]
        num_not_denied == count_warnings(r.self, report)[2]
        r2 == IF num_denied > 0
              THEN Emit(r1, status_event("error", "denied", num_denied,
                                         warning_word(num_denied), path))
              ELSE r1
    IN IF num_not_denied > 0
       THEN Emit(r2, status_event("warning", "allowed", num_not_denied,
                                  warning_word(num_not_denied), path))
       ELSE r2

\* print_report without the early return of the JSON format.
print_report_json_falls_through(self, report, lockfile, path) ==
    LET r0 == IF self.config.format = "Json"
              THEN Emit(Call(Running(self), <<"serde_json::to_writer">>),
                        [ev |-> "json", color |-> "", label |-> "", content |-> report])
              ELSE Running(self)
        r1 == Call(r0, <<"dependency_tree">>)
    IN IF ~lockfile.valid THEN Panic(r1)
       ELSE LET tree == lockfile.nodes
                r2 == print_vulnerabilities(r1, report.vulnerabilities.list, tree)
                r3 == print_warnings(r2, warnings_values(report.warnings, 1), tree)
            IN IF r3.panicked THEN r3 ELSE print_aggregate(r3, report, path)

\* Presenter::print_report
print_report(self, report, lockfile, path) ==
    IF self.config.format = "Json"
    THEN Emit(Call(Running(self), <<"serde_json::to_writer">>),
              [ev |-> "json", color |-> "", label |-> "", content |-> report])
    ELSE LET r1 == Call(Running(self), <<"dependency_tree">>)
         IN IF ~lockfile.valid THEN Panic(r1)
            ELSE LET tree == lockfile.nodes
                     r2 == print_vulnerabilities(r1, report.vulnerabilities.list, tree)
                     r3 == print_warnings(r2, warnings_values(report.warnings, 1), tree)
                 IN IF r3.panicked THEN r3 ELSE print_aggregate(r3, report, path)

\* Presenter::print_self_report
print_self_report(self, self_advisories) ==
    IF self_advisories = <<>> THEN Running(self)
    ELSE LET deny == "warnings" \in self.config.deny
             r1 == Emit(Running(self),
                        status_event(IF deny THEN "error" ELSE "warning",
                                     "self", Len(self_advisories), "upgrade", None))
             F[i \in 0..Len(self_advisories)] ==
                IF i = 0 THEN r1
                ELSE print_metadata(F[i - 1], self_advisories[i], warning_color(deny))
         IN println(F[Len(self_advisories)])

(***************************************************************************)
(* AffectedVersionLister                                                   *)
(***************************************************************************)
\* The crates of the model: "demo" is in the crates.io index, "gone" is not.
CrateNames == {"demo", "gone"}

\* The version strings the index may publish; "1.0" is no semantic version.
VersionStrings == {"0.9.0", "1.0.0", "1.0"}

\* rustsec::Version::parse: Some(version), or None for a parse error.
Version_parse(version) ==
    CASE version = "0.9.0" -> Some(<<0, 9, 0>>)
      [] version = "1.0.0" -> Some(<<1, 0, 0>>)
      [] OTHER -> None

Versions == {<<0, 9, 0>>, <<1, 0, 0>>}

\* advisory.versions.is_vulnerable: the advisory's range, as the set of the
\* versions in it.
is_vulnerable(versions, parsed_version) == parsed_version \in versions

\* rustsec::Collection, as the Option of advisory.metadata.collection.
Collections == {None, Some("crates"), Some("rust")}

\* rustsec::Advisory, the fields the lister reads.
Advisory(id, package, collection, versions) ==
    [id |-> id, package |-> package, collection |-> collection, versions |-> versions]

\* The advisories the database may hold at position i: "<1.0.0" or every version.
AdvisoriesAt(i) ==
    {Advisory(i, package, collection, versions) :
        package \in CrateNames, collection \in Collections,
        versions \in {{<<0, 9, 0>>}, Versions}}

\* rustsec::Database, in the order of Database::iter.
Databases ==
    UNION {{db \in [1..n -> UNION {AdvisoriesAt(i) : i \in 1..n}] :
                \A i \in 1..n : db[i].id = i} : n \in 0..MaxAdvisories}

\* RemoteGitIndex: per crate, None or Some(the published version strings).
Indexes ==
    {[name \in CrateNames |-> IF name = "demo" THEN Some(published) ELSE None] :
        published \in SeqsUpTo(VersionStrings, MaxVersions)}

\* RemoteGitIndex::krate
krate(crates_index, crate_name) == crates_index[crate_name]

\* The loop with the branches of is_vulnerable exchanged.
RECURSIVE list_versions_inverted(_, _, _)
list_versions_inverted(r, advisory, versions) ==
    IF versions = <<>> \/ r.panicked THEN r
    ELSE LET version == Head(versions)
             parsed_version == Version_parse(version)
         IN IF ~is_some(parsed_version) THEN Panic(r)
            ELSE list_versions_inverted(
                    Emit(r, [ev |-> "println", color |-> "", label |-> version,
                             content |-> IF is_vulnerable(advisory.versions, parsed_version[1])
                                         THEN "OK" ELSE "vulnerable"]),
                    advisory, Tail(versions))

\* The loop skipping a version that does not parse (filter_map(.ok())).
RECURSIVE list_versions_skip_unparsable(_, _, _)
list_versions_skip_unparsable(r, advisory, versions) ==
    IF versions = <<>> \/ r.panicked THEN r
    ELSE LET version == Head(versions)
             parsed_version == Version_parse(version)
         IN IF ~is_some(parsed_version)
            THEN list_versions_skip_unparsable(r, advisory, Tail(versions))
            ELSE list_versions_skip_unparsable(
                    Emit(r, [ev |-> "println", color |-> "", label |-> version,
                             content |-> IF is_vulnerable(advisory.versions, parsed_version[1])
                                         THEN "vulnerable" ELSE "OK"]),
                    advisory, Tail(versions))

\* process_one_advisory, the loop over crate_info.versions
RECURSIVE list_versions(_, _, _)
list_versions(r, advisory, versions) ==
    IF versions = <<>> \/ r.panicked THEN r
    ELSE LET version == Head(versions)
             parsed_version == Version_parse(version)
         IN IF ~is_some(parsed_version) THEN Panic(r)
            ELSE list_versions(
                    Emit(r, [ev |-> "println", color |-> "", label |-> version,
                             content |-> IF is_vulnerable(advisory.versions, parsed_version[1])
                                         THEN "vulnerable" ELSE "OK"]),
                    advisory, Tail(versions))

\* AffectedVersionLister::process_one_advisory
process_one_advisory(r, advisory) ==
    LET r1 == Emit(Call(r, <<"process_one_advisory", advisory.id>>),
                   [ev |-> "status", color |-> "ok", label |-> "Loaded",
                    content |-> <<advisory.id, advisory.package>>])
        crate_info == krate(r.self.crates_index, advisory.package)
    IN IF ~is_some(crate_info) THEN Panic(r1)
       ELSE list_versions(r1, advisory, crate_info[1])

\* process_all_advisories taking an absent collection for crates
\* (unwrap_or(Collection::Crates)).
process_all_advisories_default_crates(r) ==
    LET db == r.self.advisory_db
        F[i \in 0..Len(db)] ==
            IF i = 0 THEN r
            ELSE IF F[i - 1].panicked THEN F[i - 1]
            ELSE IF unwrap_or(db[i].collection, "crates") # "crates" THEN F[i - 1]
            ELSE process_one_advisory(F[i - 1], db[i])
    IN F[Len(db)]

\* AffectedVersionLister::process_all_advisories
process_all_advisories(r) ==
    LET db == r.self.advisory_db
        F[i \in 0..Len(db)] ==
            IF i = 0 THEN r
            ELSE IF F[i - 1].panicked THEN F[i - 1]
            ELSE IF ~is_some(db[i].collection) THEN Panic(F[i - 1])
            ELSE IF db[i].collection[1] # "crates" THEN F[i - 1]
            ELSE process_one_advisory(F[i - 1], db[i])
    IN F[Len(db)]

(***************************************************************************)
(* The state: a Presenter with the audit it presents (a report and the     *)
(* lockfile it was computed from) and the advisories about cargo-audit     *)
(* itself, an AffectedVersionLister, and what the last call did.           *)
(***************************************************************************)
VARIABLES
    presenter,        \* the Presenter
    audit,            \* [report, lockfile]: the arguments of print_report
    self_advisories,  \* the argument of print_self_report
    lister,           \* the AffectedVersionLister
    op,               \* the last call: its name, "" before the first
    out,              \* what the last call printed
    calls,            \* the calls the last call made
    status,           \* of the last call: "new", "returned" or "panicked"
    renders           \* per dependency, the tree blocks rendered so far

vars == <<presenter, audit, self_advisories, lister, op, out, calls, status, renders>>

\* The tree blocks of one call's output, per dependency.
rendered(output, dep) ==
    Cardinality({i \in 1..Len(output) :
                    output[i].ev = "tree" /\ output[i].content = dep})

NoReport == Report(<<>>, [k \in WarningKinds |-> <<>>])

NoLister == [crates_index |-> [name \in CrateNames |-> None], advisory_db |-> <<>>]

DefaultConfig == [deny |-> {}, format |-> "Terminal", show_tree |-> None]

InitCall ==
    /\ op = ""
    /\ out = <<>>
    /\ calls = <<>>
    /\ status = "new"
    /\ renders = [dep \in Dependencies |-> 0]

\* The outcome r of a call of the handler named name.
Finish(name, r) ==
    /\ op' = name
    /\ out' = r.out
    /\ calls' = r.calls
    /\ status' = IF r.panicked THEN "panicked" ELSE "returned"
    /\ renders' = [dep \in Dependencies |-> renders[dep] + rendered(r.out, dep)]

(***************************************************************************)
(* Spec: one Presenter presents one audit, any number of times.            *)
(***************************************************************************)
Init ==
    /\ presenter \in {new(config) : config \in OutputConfig}
    /\ audit \in [report : Reports, lockfile : Lockfiles]
    /\ self_advisories = <<>>
    /\ lister = NoLister
    /\ InitCall

\* One call of print_report on the audit.
PrintReport ==
    /\ status # "panicked"
    /\ \E path \in Paths :
        \E r \in {print_report(presenter, audit.report, audit.lockfile, path)} :
           /\ presenter' = r.self
           /\ Finish("print_report", r)
    /\ UNCHANGED <<audit, self_advisories, lister>>

Next == PrintReport

Spec == Init /\ [][Next]_vars

(***************************************************************************)
(* SelfSpec: the self report of one Presenter.                             *)
(***************************************************************************)
SelfInit ==
    /\ presenter \in {new(config) : config \in {c \in OutputConfig : c.show_tree = None}}
    /\ audit \in {[report |-> rep, lockfile |-> [valid |-> TRUE, nodes |-> Dependencies]] :
                    rep \in {NoReport,
                             Report(<<CHOOSE p \in Package : TRUE>>,
                                    [k \in WarningKinds |-> <<>>])}}
    /\ self_advisories \in SeqsUpTo(Metadata, MaxSelfAdvisories)
    /\ lister = NoLister
    /\ InitCall

\* One call of print_self_report.
PrintSelfReport ==
    /\ status # "panicked"
    /\ \E r \in {print_self_report(presenter, self_advisories)} :
           /\ presenter' = r.self
           /\ Finish("print_self_report", r)
    /\ UNCHANGED <<audit, self_advisories, lister>>

SelfNext == PrintSelfReport

SelfSpec == SelfInit /\ [][SelfNext]_vars

(***************************************************************************)
(* ListerSpec: one AffectedVersionLister over one database and one index.  *)
(***************************************************************************)
ListerInit ==
    /\ presenter = new(DefaultConfig)
    /\ audit = [report |-> NoReport, lockfile |-> [valid |-> TRUE, nodes |-> Dependencies]]
    /\ self_advisories = <<>>
    /\ lister \in [crates_index : Indexes, advisory_db : Databases]
    /\ InitCall

\* One call of process_one_advisory, on an advisory of the database.
ProcessOneAdvisory ==
    /\ status # "panicked"
    /\ \E i \in 1..Len(lister.advisory_db) :
        \E r \in {process_one_advisory(Running(lister), lister.advisory_db[i])} :
           Finish("process_one_advisory", r)
    /\ UNCHANGED <<presenter, audit, self_advisories, lister>>

\* One call of process_all_advisories.
ProcessAllAdvisories ==
    /\ status # "panicked"
    /\ \E r \in {process_all_advisories(Running(lister))} :
           Finish("process_all_advisories", r)
    /\ UNCHANGED <<presenter, audit, self_advisories, lister>>

ListerNext == ProcessOneAdvisory \/ ProcessAllAdvisories

ListerSpec == ListerInit /\ [][ListerNext]_vars

(***************************************************************************)
(* Properties of the Presenter (Spec).                                     *)
(***************************************************************************)
\* The status lines of the given severity and kind in an output.
Lines(output, severity, what) ==
    {i \in 1..Len(output) :
        /\ output[i].ev = "status"
        /\ output[i].color = severity
        /\ output[i].label = what}

\* An error-severity aggregate line: "N vulnerabilit(y|ies) found" or
\* "N denied warning(s) found".
ErrorAggregatePrinted(output) ==
    Lines(output, "error", "found") \cup Lines(output, "error", "denied") # {}

Human == presenter.config.format # "Json"

ShowTree == unwrap_or(presenter.config.show_tree, TRUE)

\* C1, as stated: for every report and every output configuration, when
\* print_report has returned, should_exit_with_failure is true exactly when
\* print_report printed an error-severity aggregate line.
C1_FailureIffErrorLine ==
    status = "returned" =>
        (should_exit_with_failure(presenter, audit.report)
            <=> ErrorAggregatePrinted(out))

\* C1, amended: when the format is not JSON and print_report returns,
\* should_exit_with_failure is true exactly when print_report printed an
\* error-severity aggregate line; under JSON no aggregate line is printed,
\* whatever should_exit_with_failure returns.
C1_FailureIffErrorLineHuman ==
    status = "returned" =>
        IF Human
        THEN should_exit_with_failure(presenter, audit.report)
                <=> ErrorAggregatePrinted(out)
        ELSE ~ErrorAggregatePrinted(out)

\* A human-readable report without vulnerabilities fails on a denied warning,
\* and the denied line was printed.
C1_Witness ==
    /\ status = "returned"
    /\ Human
    /\ ~audit.report.vulnerabilities.found
    /\ should_exit_with_failure(presenter, audit.report)
    /\ Lines(out, "error", "denied") # {}

\* C2: over the calls made on one Presenter, the tree block of a dependency
\* (name + version) is rendered at most once, a rendered dependency is in
\* displayed_packages, and a call that starts with the dependency in
\* displayed_packages renders no block for it and keeps it there.
C2_TreeAtMostOnce ==
    /\ [](\A dep \in Dependencies :
            /\ renders[dep] <= 1
            /\ renders[dep] = 1 => dep \in presenter.displayed_packages)
    /\ [][\A dep \in presenter.displayed_packages :
            /\ renders'[dep] = renders[dep]
            /\ dep \in presenter'.displayed_packages]_vars

\* A second print_report of a report with two findings about one package: the
\* block was rendered by the first call and not again.
C2_Witness ==
    /\ status = "returned"
    /\ \E dep \in Dependencies :
        /\ renders[dep] = 1
        /\ rendered(out, dep) = 0
        /\ Len(audit.report.vulnerabilities.list) = 1
        /\ Dependency_from(audit.report.vulnerabilities.list[1].package) = dep
        /\ \E k \in WarningKinds :
            /\ audit.report.warnings[k] # <<>>
            /\ Dependency_from(audit.report.warnings[k][1].package) = dep

\* C5: under the JSON format print_report returns after serializing the
\* report once: it prints nothing else, makes no call on the dependency tree
\* and leaves the presenter as it was constructed.
C5_JsonOnly ==
    (status # "new" /\ ~Human) =>
        /\ status = "returned"
        /\ Len(out) = 1
        /\ out[1].ev = "json"
        /\ out[1].content = audit.report
        /\ calls = << <<"serde_json::to_writer">> >>
        /\ presenter = new(presenter.config)

\* A JSON report with findings, on a lockfile without a dependency tree.
C5_Witness ==
    /\ status = "returned"
    /\ ~Human
    /\ audit.report.vulnerabilities.found
    /\ \E k \in WarningKinds : audit.report.warnings[k] # <<>>
    /\ ~audit.lockfile.valid

\* The packages of the findings of a report.
FindingPackages(report) ==
    {report.vulnerabilities.list[i].package :
        i \in 1..Len(report.vulnerabilities.list)}
    \cup UNION {{report.warnings[k][i].package : i \in 1..Len(report.warnings[k])} :
                    k \in WarningKinds}

\* Some finding's package has no node in the lockfile's dependency tree.
LookupMiss ==
    \E package \in FindingPackages(audit.report) :
        Dependency_from(package) \notin audit.lockfile.nodes

\* C8, as stated: a human-readable print_report of a report with a finding
\* whose package has no tree node never returns, whatever show_tree is.
C8_LookupMissFatal ==
    (status # "new" /\ Human /\ LookupMiss) => status = "panicked"

\* C8, amended: with show_tree true or unset, a human-readable print_report
\* of a report with a finding whose package has no tree node panics; with
\* show_tree false the tree is never looked up and print_report returns.
C8_LookupMissFatalWhenShown ==
    (status # "new" /\ Human /\ LookupMiss) =>
        IF ShowTree THEN status = "panicked"
        ELSE audit.lockfile.valid => status = "returned"

\* The second of two findings is the one without a node: the first block was
\* rendered, then the call panicked.
C8_Witness ==
    /\ status = "panicked"
    /\ Human
    /\ ShowTree
    /\ audit.lockfile.valid
    /\ LookupMiss
    /\ \E dep \in Dependencies : rendered(out, dep) = 1

\* The warnings of a report, as <<kind, index>>.
WarningsOf(report) ==
    UNION {{<<k, i>> : i \in 1..Len(report.warnings[k])} : k \in WarningKinds}

\* The warnings whose kind is denied.
DeniedOf(self, report) ==
    {w \in WarningsOf(report) :
        report.warnings[w[1]][w[2]].kind \in self.deny_warning_kinds}

\* The counts count_warnings must return, and the deny-kind set.
C10_Buckets ==
    LET counted == count_warnings(presenter, audit.report)
        all == WarningsOf(audit.report)
        denied == DeniedOf(presenter, audit.report)
    IN /\ presenter.deny_warning_kinds =
            {k \in WarningKinds :
                \E o \in presenter.config.deny : k \in get_warning_kind(o)}
       /\ counted[1] = Cardinality(denied)
       /\ counted[2] = Cardinality(all \ denied)
       /\ counted[1] + counted[2] = Cardinality(all)
       /\ presenter.config.deny = {} => counted[1] = 0

\* The aggregate warning lines agree with the counts: the denied line at
\* error severity iff denied > 0, the allowed line at warning severity iff
\* allowed > 0, each with its count.
C10_AggregateLines ==
    LET counted == count_warnings(presenter, audit.report)
    IN /\ Lines(out, "error", "denied") # {} <=> counted[1] > 0
       /\ Lines(out, "warning", "allowed") # {} <=> counted[2] > 0
       /\ \A i \in Lines(out, "error", "denied") : out[i].content[1] = counted[1]
       /\ \A i \in Lines(out, "warning", "allowed") : out[i].content[1] = counted[2]
       /\ Lines(out, "warning", "denied") \cup Lines(out, "error", "allowed") = {}

\* C10, as stated: count_warnings puts every warning in one bucket, denied
\* iff its kind is in the deny-kind set; an empty deny configuration denies
\* nothing; and a print_report that has returned has printed the denied line
\* iff denied > 0 and the allowed line iff allowed > 0.
C10_CountAndLines ==
    /\ C10_Buckets
    /\ status = "returned" => C10_AggregateLines

\* C10, amended: the counts as stated; the aggregate lines as stated when the
\* format is not JSON; under JSON neither line is printed.
C10_CountAndLinesHuman ==
    /\ C10_Buckets
    /\ status = "returned" =>
        IF Human THEN C10_AggregateLines
        ELSE Lines(out, "error", "denied") \cup Lines(out, "warning", "allowed") = {}

\* A human-readable report with a denied and an allowed warning, both lines
\* printed.
C10_Witness ==
    /\ status = "returned"
    /\ Human
    /\ count_warnings(presenter, audit.report)[1] = 1
    /\ count_warnings(presenter, audit.report)[2] = 1
    /\ Lines(out, "error", "denied") # {}
    /\ Lines(out, "warning", "allowed") # {}

\* The dependencies of the findings of a report.
FindingDependencies(report) ==
    {Dependency_from(package) : package \in FindingPackages(report)}

\* The tree text of an output: the "Dependency tree:" headers and the blocks.
TreeText(output) ==
    {i \in 1..Len(output) :
        \/ output[i].ev = "tree"
        \/ output[i].ev = "attr" /\ output[i].label = "Dependency tree:\n"}

\* The calls on the dependency tree (nodes, render) among a call's calls.
TreeCalls(made) ==
    {i \in 1..Len(made) : made[i][1] \in {"tree.nodes", "tree.render"}}

\* C11: print_tree records a package in displayed_packages on its first call
\* for it whatever show_tree is: displayed_packages never holds anything but
\* the dependencies of the findings, and after a human-readable print_report
\* that returned it holds all of them, with show_tree true, false or unset.
\* show_tree = false suppresses the tree text and the tree lookup and nothing
\* else: the output is the one of a presenter that shows trees and has
\* displayed these packages before. An unset show_tree behaves as true: every
\* recorded dependency had its block rendered, or its lookup was the miss
\* that stopped the call.
C11_DedupIndependentOfShowTree ==
    /\ presenter.displayed_packages \subseteq FindingDependencies(audit.report)
    /\ (status = "returned" /\ Human) =>
            presenter.displayed_packages = FindingDependencies(audit.report)
    /\ (status # "new" /\ Human /\ ~ShowTree) =>
        /\ TreeText(out) = {}
        /\ TreeCalls(calls) = {}
        /\ \A dep \in Dependencies : renders[dep] = 0
        /\ status = "returned" =>
            \E path \in Paths :
                out = print_report([presenter EXCEPT !.config.show_tree = Some(TRUE)],
                                   audit.report, audit.lockfile, path).out
    /\ (status # "new" /\ Human /\ ShowTree) =>
        \A dep \in presenter.displayed_packages :
            \/ renders[dep] = 1
            \/ /\ status = "panicked"
               /\ dep \notin audit.lockfile.nodes
               /\ calls[Len(calls)] = <<"tree.nodes", dep>>

\* With show_tree = false, a report with findings about both packages, one of
\* them without a node in the tree: both are recorded and nothing is rendered.
C11_Witness ==
    /\ status = "returned"
    /\ Human
    /\ presenter.config.show_tree = Some(FALSE)
    /\ LookupMiss
    /\ presenter.displayed_packages = Dependencies
    /\ presenter.displayed_packages = FindingDependencies(audit.report)
    /\ TreeText(out) = {}

(***************************************************************************)
(* Properties of the self report (SelfSpec).                               *)
(***************************************************************************)
\* C3: should_exit_with_failure_due_to_self is false for the empty list under
\* every configuration, and for a non-empty list true exactly when the deny
\* configuration contains "warnings", whatever the report and the other deny
\* options are; it is true exactly when print_self_report prints its notice
\* at error severity.
C3_SelfFailure ==
    LET failure == should_exit_with_failure_due_to_self(presenter, self_advisories)
    IN /\ self_advisories = <<>> => ~failure
       /\ self_advisories # <<>> => (failure <=> "warnings" \in presenter.config.deny)
       /\ status = "returned" =>
            /\ failure <=> Lines(out, "error", "self") # {}
            /\ self_advisories = <<>> => out = <<>>

\* A self advisory under deny = {warnings, unsound} with a report without
\* vulnerabilities: failure, and the notice printed as an error.
C3_Witness ==
    /\ status = "returned"
    /\ self_advisories # <<>>
    /\ presenter.config.deny = {"warnings", "unsound"}
    /\ ~audit.report.vulnerabilities.found
    /\ should_exit_with_failure_due_to_self(presenter, self_advisories)
    /\ Lines(out, "error", "self") # {}

IsUrlLine(event) == event.ev = "attr" /\ event.label = "URL:      "

\* The contents of the URL lines of an output, in order.
UrlLines(output) ==
    LET lines == SelectSeq(output, IsUrlLine)
    IN [i \in 1..Len(lines) |-> lines[i].content]

\* The URL the rule selects: the explicit url first under CC-BY-4.0, the
\* ID-derived URL first under any other license, the other one as fallback.
SelectedUrl(metadata) ==
    LET explicit == metadata.url
        derived == id_url(metadata.id)
        first == IF metadata.license = "CC-BY-4.0" THEN explicit ELSE derived
        second == IF metadata.license = "CC-BY-4.0" THEN derived ELSE explicit
    IN IF first # None THEN first ELSE second

RECURSIVE SelectedUrls(_)
SelectedUrls(advisories) ==
    IF advisories = <<>> THEN <<>>
    ELSE SelectedUrl(Head(advisories)) \o SelectedUrls(Tail(advisories))

\* C4: print_metadata prints at most one URL line per advisory: the URL the
\* rule selects, and none only when the explicit and the ID-derived URL are
\* both absent.
C4_UrlPriority ==
    (status = "returned" /\ op = "print_self_report") =>
        /\ UrlLines(out) = SelectedUrls(self_advisories)
        /\ Len(UrlLines(out)) <= Len(self_advisories)
        /\ Len(UrlLines(out)) =
            Cardinality({i \in 1..Len(self_advisories) :
                            \/ self_advisories[i].url # None
                            \/ id_url(self_advisories[i].id) # None})

\* A CC-BY-4.0 advisory and a CC0 advisory, both with both URLs: the explicit
\* url is printed for the first, the ID-derived URL for the second.
C4_Witness ==
    /\ status = "returned"
    /\ Len(self_advisories) = 2
    /\ self_advisories[1].license = "CC-BY-4.0"
    /\ self_advisories[2].license = "CC0-1.0"
    /\ \A i \in 1..2 :
        /\ self_advisories[i].url # None
        /\ id_url(self_advisories[i].id) # None
    /\ UrlLines(out) = <<self_advisories[1].url[1], id_url(self_advisories[2].id)[1]>>

(***************************************************************************)
(* Properties of the AffectedVersionLister (ListerSpec).                   *)
(***************************************************************************)
\* What a run printed: <<"Loaded", advisory id>> and <<version, status>>.
Printed(output) ==
    [i \in 1..Len(output) |->
        IF output[i].ev = "status"
        THEN <<"Loaded", output[i].content[1]>>
        ELSE <<output[i].label, output[i].content>>]

IsStatusLine(event) == event.ev = "println"

\* The ids of the advisories process_one_advisory was called on, in order.
Visited == [i \in 1..Len(calls) |-> calls[i][2]]

\* The published versions of a crate; none for a crate the index lacks.
Published(crate_name) ==
    unwrap_or(lister.crates_index[crate_name], <<>>)

Parses(version) == Version_parse(version) # None

\* The crate of the advisory is in the index and all its versions parse.
Listable(advisory) ==
    /\ lister.crates_index[advisory.package] # None
    /\ \A i \in 1..Len(Published(advisory.package)) :
            Parses(Published(advisory.package)[i])

\* One status per published version, in index order.
StatusOf(advisory, version) ==
    IF Parses(version) /\ is_vulnerable(advisory.versions, Version_parse(version)[1])
    THEN "vulnerable" ELSE "OK"

ExpectedOne(advisory) ==
    << <<"Loaded", advisory.id>> >>
        \o [i \in 1..Len(Published(advisory.package)) |->
                <<Published(advisory.package)[i],
                  StatusOf(advisory, Published(advisory.package)[i])>>]

\* The advisories of category "crates", in database order.
IsCrates(advisory) == advisory.collection = Some("crates")

CratesOf(db) == SelectSeq(db, IsCrates)

RECURSIVE ExpectedAll(_)
ExpectedAll(advisories) ==
    IF advisories = <<>> THEN <<>>
    ELSE ExpectedOne(Head(advisories)) \o ExpectedAll(Tail(advisories))

Ids(advisories) == [i \in 1..Len(advisories) |-> advisories[i].id]

AllCrates == \A i \in 1..Len(lister.advisory_db) : IsCrates(lister.advisory_db[i])

\* s is an initial part of t.
IsPrefix(s, t) == Len(s) <= Len(t) /\ s = SubSeq(t, 1, Len(s))

\* C6: over a database of "crates" advisories process_all_advisories calls
\* process_one_advisory on the advisories in database order, each at most
\* once; a run that returns has called it once per advisory and each call
\* has printed one status per published version of the advisory's crate, in
\* index order, "vulnerable" exactly when is_vulnerable holds of the parsed
\* version; and the run returns when every crate is in the index and every
\* version parses.
C6_Complete ==
    (op = "process_all_advisories" /\ AllCrates) =>
        /\ IsPrefix(Visited, Ids(lister.advisory_db))
        /\ status = "returned" =>
            /\ Visited = Ids(lister.advisory_db)
            /\ Printed(out) = ExpectedAll(lister.advisory_db)
        /\ (\A i \in 1..Len(lister.advisory_db) : Listable(lister.advisory_db[i])) =>
            status = "returned"

\* Two advisories on a crate with a vulnerable and a fixed version.
C6_Witness ==
    /\ op = "process_all_advisories"
    /\ status = "returned"
    /\ AllCrates
    /\ Len(lister.advisory_db) = 2
    /\ Published("demo") = <<"0.9.0", "1.0.0">>
    /\ lister.advisory_db[1].versions = {<<0, 9, 0>>}
    /\ Printed(out) = << <<"Loaded", 1>>, <<"0.9.0", "vulnerable">>, <<"1.0.0", "OK">>,
                         <<"Loaded", 2>> >>
                      \o SubSeq(Printed(out), 5, 6)

\* The positions of the advisories without a collection.
Uncategorized ==
    {i \in 1..Len(lister.advisory_db) : lister.advisory_db[i].collection = None}

\* C7: process_all_advisories makes no call and prints nothing for an
\* advisory of another category than "crates" and goes on to the advisories
\* after it; an advisory without a category is fatal: the run panics, and
\* neither that advisory nor a later one is processed.
C7_SkipOrFatal ==
    (op = "process_all_advisories") =>
        /\ \A i \in 1..Len(Visited) : IsCrates(lister.advisory_db[Visited[i]])
        /\ Uncategorized # {} =>
            /\ status = "panicked"
            /\ \A i \in Uncategorized : \A j \in 1..Len(Visited) : Visited[j] < i
        /\ (/\ Uncategorized = {}
            /\ \A i \in 1..Len(lister.advisory_db) :
                IsCrates(lister.advisory_db[i]) => Listable(lister.advisory_db[i])) =>
            /\ status = "returned"
            /\ Visited = Ids(CratesOf(lister.advisory_db))
            /\ Printed(out) = ExpectedAll(CratesOf(lister.advisory_db))

\* A toolchain advisory followed by a crate advisory: only the second is
\* processed, and the run returns.
C7_Witness ==
    /\ op = "process_all_advisories"
    /\ status = "returned"
    /\ Len(lister.advisory_db) = 2
    /\ lister.advisory_db[1].collection = Some("rust")
    /\ Visited = <<2>>
    /\ Len(out) > 1

\* The positions of the version strings that do not parse.
Unparsable(versions) == {i \in 1..Len(versions) : ~Parses(versions[i])}

Min(S) == CHOOSE x \in S : \A y \in S : x <= y

\* C9: process_one_advisory on a crate with a version string that does not
\* parse panics at the first such version, having printed the statuses of
\* the versions before it and nothing after; so a run (of one advisory or of
\* the database) that returns has printed a status for every published
\* version of every crate it processed.
C9_ParseFailureFatal ==
    /\ (op = "process_one_advisory" /\ status # "new") =>
        LET advisory == lister.advisory_db[Visited[1]]
            versions == Published(advisory.package)
        IN (lister.crates_index[advisory.package] # None
                /\ Unparsable(versions) # {}) =>
            /\ status = "panicked"
            /\ Printed(out) =
                SubSeq(ExpectedOne(advisory), 1, Min(Unparsable(versions)))
    /\ status = "returned" =>
        /\ \A i \in 1..Len(Visited) : Listable(lister.advisory_db[Visited[i]])
        /\ Printed(out) =
            ExpectedAll([i \in 1..Len(Visited) |-> lister.advisory_db[Visited[i]]])

\* "0.9.0" then "1.0": one status printed, then the panic.
C9_Witness ==
    /\ op = "process_one_advisory"
    /\ status = "panicked"
    /\ Published("demo") = <<"0.9.0", "1.0">>
    /\ Len(SelectSeq(out, IsStatusLine)) = 1

====
